---- MODULE Spec2Model ----
(***************************************************************************)
(* Circle-packing layout engine of the conduit-fill page                   *)
(* (src/streamlit_app.py): _place_cables, _place_cables_allow_overlap and  *)
(* the multi-seed retry / selection block that drives them.                *)
(*                                                                         *)
(* Arithmetic.  The program computes in IEEE doubles; the model computes   *)
(* in fixed point.  Lengths are integers in units of 0.01 mm, angles are   *)
(* integers in units of 2.5 degrees (pi = 72), every angle the packer      *)
(* samples (offsets 0, pi/36, pi/18, pi/12, pi/9; steps 2 pi/36, 2 pi/48)  *)
(* being a multiple of that unit.  cos and sin come from a table scaled by *)
(* 10000 and every product or quotient is rounded to the nearest unit, as  *)
(* a double operation is rounded to the nearest double.                    *)
(*                                                                         *)
(* Aliasing.  cable_instances is a list of dicts; _place_cables writes the *)
(* centre into the dict ("cable[x], cable[y] = ...") and returns a list of *)
(* references to those dicts.  The model keeps the dicts in the variable   *)
(* cable_instances and every list of cables as a sequence of indices into  *)
(* it, so that a list returned earlier sees what later calls write.        *)
(***************************************************************************)
EXTENDS Integers, Sequences, FiniteSets

\* ------------------------------------------------------------------ bounds

\* copies of one table row (quantity)
MaxQty == 3

\* -------------------------------------------------------- program constants

DefaultAngleCount == 36
RetryAngleCount == 48
RingLimit == 16

\* pi in angle units of 2.5 degrees
Pi == 72

\* radius of the conduit, 10.00 mm
ConduitRadii == {1000}

\* cable radii of a table row: missing/non-positive (0), 2.20 mm, 3.50 mm,
\* 6.00 mm and one larger than the conduit
Radii == {0, 220, 350, 600, 1100}

None == [none |-> TRUE]

\* ----------------------------------------------------------------- the run

\* the number of the script run (the page is run again on every interaction)
VARIABLE run

\* ---------------------------------------------------------------- arithmetic

Max(a, b) == IF a >= b THEN a ELSE b
Min(a, b) == IF a <= b THEN a ELSE b
Abs(a) == IF a >= 0 THEN a ELSE -a

\* n / d rounded to the nearest integer (d > 0)
Round(n, d) == (2 * n + d) \div (2 * d)

RECURSIVE IsqrtIter(_, _)
IsqrtIter(n, x) ==
    LET y == (x + n \div x) \div 2
    IN  IF y >= x THEN x ELSE IsqrtIter(n, y)

\* floor of the square root
IsqrtFloor(n) ==
    IF n <= 0 THEN 0
    ELSE IsqrtIter(n, IF n < 10000 THEN 100
                      ELSE IF n < 1000000 THEN 1000
                      ELSE IF n < 100000000 THEN 10000 ELSE 46340)

\* math.sqrt, rounded to the nearest unit
Sqrt(n) ==
    LET s == IsqrtFloor(n)
    IN  IF n - s * s > s THEN s + 1 ELSE s

\* math.hypot(x, y), and (x * x + y * y) ** 0.5
Hypot(x, y) == Sqrt(x * x + y * y)

\* 10000 * cos of 0, 2.5, ..., 90 degrees
CosTab ==
    << 10000, 9990, 9962, 9914, 9848, 9763, 9659, 9537, 9397, 9239, 9063, 8870,
       8660, 8434, 8192, 7934, 7660, 7373, 7071, 6756, 6428, 6088, 5736, 5373,
       5000, 4617, 4226, 3827, 3420, 3007, 2588, 2164, 1736, 1305, 872, 436, 0 >>

\* math.cos, math.sin of an angle in units of 2.5 degrees, scaled by 10000
Cos(a) ==
    LET m == a % (2 * Pi)
    IN  IF m <= 36 THEN CosTab[m + 1]
        ELSE IF m <= 72 THEN -CosTab[72 - m + 1]
        ELSE IF m <= 108 THEN -CosTab[m - 72 + 1]
        ELSE CosTab[144 - m + 1]

Sin(a) == Cos(a + 108)

\* (d * math.cos(a), d * math.sin(a))
Polar(d, a) == << Round(d * Cos(a), 10000), Round(d * Sin(a), 10000) >>

\* ------------------------------------------------------------ _place_cables

\* spacing_options = [0.5, 0.2, 0.0]
SpacingOptions == << 50, 20, 0 >>

\* angles[i] = angle_offset + i * (math.pi / max(1.0, angle_count / 2.0))
Angle(angle_offset, angle_count, i) ==
    angle_offset + i * (Pi \div Max(1, angle_count \div 2))

\* fits with a min_sep that forgets the radius of the other cable
fits_without_other_radius(cs, pl, R, x, y, r, spacing) ==
    /\ ~(Hypot(x, y) + r > R)
    /\ \A k \in 1..Len(pl) :
          LET other == cs[pl[k]]
              dx == x - other.x
              dy == y - other.y
              min_sep == r + spacing
          IN  ~(dx * dx + dy * dy < min_sep * min_sep)

\* fits(x, y, r, spacing): inside the conduit and min_sep away from every
\* cable of the list placed (pl: indices into the dicts cs)
fits(cs, pl, R, x, y, r, spacing) ==
    /\ ~(Hypot(x, y) + r > R)
    /\ \A k \in 1..Len(pl) :
          LET other == cs[pl[k]]
              dx == x - other.x
              dy == y - other.y
              min_sep == r + other.r + spacing
          IN  ~(dx * dx + dy * dy < min_sep * min_sep)

\* circle_intersections(x0, y0, r0, x1, y1, r1): no point or two
circle_intersections(x0, y0, r0, x1, y1, r1) ==
    LET dx == x1 - x0
        dy == y1 - y0
        d == Hypot(dx, dy)
    IN  IF d = 0 \/ d > r0 + r1 \/ d < Abs(r0 - r1) THEN << >>
        ELSE LET a == Round(r0 * r0 - r1 * r1 + d * d, 2 * d)
                 h_sq == r0 * r0 - a * a
             IN  IF h_sq < 0 THEN << >>
                 ELSE LET h == Sqrt(h_sq)
                          xm == x0 + Round(a * dx, d)
                          ym == y0 + Round(a * dy, d)
                          rx == -Round(dy * h, d)
                          ry == Round(dx * h, d)
                      IN  << << xm + rx, ym + ry >>, << xm - rx, ym - ry >> >>

\* candidates tangent to one placed circle, for other in placed, for a in angles
TangentOne(cs, pl, r, spacing, angle_offset, angle_count) ==
    [ k \in 1..(Len(pl) * angle_count) |->
        LET other == cs[pl[((k - 1) \div angle_count) + 1]]
            p == Polar(other.r + r + spacing,
                       Angle(angle_offset, angle_count, (k - 1) % angle_count))
        IN  << other.x + p[1], other.y + p[2] >> ]

\* candidates tangent to two placed circles, for i, for j in range(i + 1, ..)
RECURSIVE TangentTwo(_, _, _, _, _, _)
TangentTwo(cs, pl, r, spacing, i, j) ==
    IF i >= Len(pl) THEN << >>
    ELSE IF j > Len(pl) THEN TangentTwo(cs, pl, r, spacing, i + 1, i + 2)
    ELSE LET o1 == cs[pl[i]]
             o2 == cs[pl[j]]
         IN  circle_intersections(o1.x, o1.y, o1.r + r + spacing,
                                  o2.x, o2.y, o2.r + r + spacing)
             \o TangentTwo(cs, pl, r, spacing, i, j + 1)

\* candidates tangent to the conduit wall
BoundaryCands(R, r, angle_offset, angle_count) ==
    IF R - r > 0
    THEN [ k \in 1..angle_count |->
             Polar(R - r, Angle(angle_offset, angle_count, k - 1)) ]
    ELSE << >>

\* the list candidates, in the order the code appends to it
Candidates(cs, pl, R, r, spacing, angle_offset, angle_count) ==
    TangentOne(cs, pl, r, spacing, angle_offset, angle_count)
    \o TangentTwo(cs, pl, r, spacing, 1, 2)
    \o BoundaryCands(R, r, angle_offset, angle_count)

\* current_max: the largest extent among the placed cables
RECURSIVE CurrentMax(_, _, _)
CurrentMax(cs, pl, k) ==
    IF k > Len(pl) THEN 0
    ELSE Max(Hypot(cs[pl[k]].x, cs[pl[k]].y) + cs[pl[k]].r, CurrentMax(cs, pl, k + 1))

\* score = (max_extent, extent, x * x + y * y)
Score(x, y, r, current_max) ==
    LET extent == Hypot(x, y) + r
    IN  << Max(current_max, extent), extent, x * x + y * y >>

\* tuple comparison score < best_score
ScoreLess(s, t) ==
    \/ s[1] < t[1]
    \/ s[1] = t[1] /\ s[2] < t[2]
    \/ s[1] = t[1] /\ s[2] = t[2] /\ s[3] < t[3]

\* a comparison that keeps the candidate of larger score
Better_farthest(score, best_score) == ScoreLess(best_score, score)

\* "best_score is None or score < best_score", for a best_score that is set
Better(score, best_score) == ScoreLess(score, best_score)

\* the ranking loop "for (x, y) in candidates" over the points pts, entered
\* with best = None: the first point, in list order, of least score among
\* those that fit, as [x, y, score]; None if no point fits
Rank(pts, cs, pl, R, r, spacing, current_max) ==
    LET scored == [ i \in 1..Len(pts) |->
                      IF fits(cs, pl, R, pts[i][1], pts[i][2], r, spacing)
                      THEN Score(pts[i][1], pts[i][2], r, current_max)
                      ELSE << >> ] \o << >>
        fit == { i \in 1..Len(pts) : scored[i] # << >> }
    IN  IF fit = {} THEN None
        ELSE LET b == CHOOSE i \in fit :
                        \A j \in fit : /\ j < i => Better(scored[i], scored[j])
                                       /\ j > i => ~Better(scored[j], scored[i])
             IN  [x |-> pts[b][1], y |-> pts[b][2], score |-> scored[b]]

\* the points of one fallback ring
RingPoints(ring_r, angle_offset, angle_count) ==
    [ k \in 1..angle_count |-> Polar(ring_r, Angle(angle_offset, angle_count, k - 1)) ]

\* "Fallback: a few concentric rings": for ring in range(1, 16), stopping at
\* the first ring that leaves the conduit or that yields a point
RECURSIVE RingFallback(_, _, _, _, _, _, _, _, _)

\* ring_r = ring * (r * 1.1)
RingRadius(ring, r) == ring * Round(r * 11, 10)

\* a fallback that looks at the innermost ring only
RingFallback_innermost_only(ring, cs, pl, R, r, spacing, current_max, angle_offset, angle_count) ==
    IF RingRadius(1, r) + r > R THEN None
    ELSE Rank(RingPoints(RingRadius(1, r), angle_offset, angle_count),
              cs, pl, R, r, spacing, current_max)

RingFallback(ring, cs, pl, R, r, spacing, current_max, angle_offset, angle_count) ==
    IF ring >= RingLimit THEN None
    ELSE LET ring_r == RingRadius(ring, r)
         IN  IF ring_r + r > R THEN None
             ELSE LET best == Rank(RingPoints(ring_r, angle_offset, angle_count),
                                   cs, pl, R, r, spacing, current_max)
                  IN  IF best # None THEN best
                      ELSE RingFallback(ring + 1, cs, pl, R, r, spacing, current_max,
                                        angle_offset, angle_count)

\* one pass of "for spacing in spacing_options": candidates, then the rings;
\* the point chosen, with the way it was found (via) and the spacing
\* "if best is None: <rings>", "if best is not None: ...": the point of the
\* candidates if there is one, else the point of the rings
BestOrRing(best, ring, spacing) ==
    IF best # None THEN [x |-> best.x, y |-> best.y, via |-> "tangent", spacing |-> spacing]
    ELSE IF ring # None
    THEN [x |-> ring.x, y |-> ring.y, via |-> "ring", spacing |-> spacing]
    ELSE None

\* the pass, given current_max
AtSpacingWith(current_max, cs, pl, R, r, spacing, angle_offset, angle_count) ==
    BestOrRing(Rank(Candidates(cs, pl, R, r, spacing, angle_offset, angle_count),
                    cs, pl, R, r, spacing, current_max),
               RingFallback(1, cs, pl, R, r, spacing, current_max, angle_offset, angle_count),
               spacing)

AtSpacing(cs, pl, R, r, spacing, angle_offset, angle_count) ==
    AtSpacingWith(CurrentMax(cs, pl, 1), cs, pl, R, r, spacing, angle_offset, angle_count)

\* the loop over spacing_options, left at the first spacing that yields a point
RECURSIVE SearchFrom(_, _, _, _, _, _, _)

\* "if best is not None: ... break", else the next spacing
BreakOrNext(best, si, cs, pl, R, r, angle_offset, angle_count) ==
    IF best # None THEN best
    ELSE SearchFrom(si + 1, cs, pl, R, r, angle_offset, angle_count)

SearchFrom(si, cs, pl, R, r, angle_offset, angle_count) ==
    IF si > Len(SpacingOptions) THEN None
    ELSE BreakOrNext(AtSpacing(cs, pl, R, r, SpacingOptions[si], angle_offset, angle_count),
                     si, cs, pl, R, r, angle_offset, angle_count)

\* a boundary seed centred on the conduit wall
SeedPoint_on_wall(R, r, angle_offset, seed_mode) ==
    IF seed_mode = "boundary"
    THEN Polar(R, angle_offset)
    ELSE << 0, 0 >>

\* the position of the first cable placed
SeedPoint(R, r, angle_offset, seed_mode) ==
    IF seed_mode = "boundary"
    THEN Polar(Max(0, R - r), angle_offset)
    ELSE << 0, 0 >>

\* a sort that puts the later of two equal radii first
cables_sorted_ties_reversed(cs) ==
    [ k \in 1..Len(cs) |->
        CHOOSE i \in 1..Len(cs) :
            Cardinality({ j \in 1..Len(cs) :
                            cs[j].r > cs[i].r \/ (cs[j].r = cs[i].r /\ j > i) }) = k - 1 ]

\* a sort whose order of equal radii differs from one script run to the next
cables_sorted_by_run(cs) ==
    [ k \in 1..Len(cs) |->
        CHOOSE i \in 1..Len(cs) :
            Cardinality({ j \in 1..Len(cs) :
                            \/ cs[j].r > cs[i].r
                            \/ /\ cs[j].r = cs[i].r
                               /\ IF run = 1 THEN j < i ELSE j > i }) = k - 1 ]

\* cables_sorted = sorted(cables, key = r or 0.0, reverse = True): a stable
\* sort, so equal radii keep their input order
cables_sorted_of(cs) ==
    [ k \in 1..Len(cs) |->
        CHOOSE i \in 1..Len(cs) :
            Cardinality({ j \in 1..Len(cs) :
                            cs[j].r > cs[i].r \/ (cs[j].r = cs[i].r /\ j < i) }) = k - 1 ]

\* a check of the radius against the size of the conduit radius
Skipped_by_magnitude(r, R) == r <= 0 \/ r > Abs(R)

\* a skip test that lets a cable wider than the conduit through
Skipped_only_nonpositive(r, R) == r <= 0

\* "r is None or r <= 0", "r > conduit_radius": the cable is skipped (a
\* missing radius is the radius 0 of the model)
Skipped(r, R) == r <= 0 \/ r > R

\* a skipped cable that leaves the unplaced count alone
CountSkipped_not(unplaced) == unplaced

\* the unplaced count after a skipped cable: "unplaced += 1; continue"
CountSkipped(unplaced) == unplaced + 1

\* cable["x"], cable["y"] = x, y: the write goes to the shared dict
SetCentre(cs, c, x, y) == [cs EXCEPT ![c].x = x, ![c].y = y, ![c].has = TRUE]

\* one iteration of "for cable in cables_sorted" on the cable of index c:
\* the dicts, the list placed and the count unplaced after it, and the branch
\* the iteration took (via, and the spacing of the pass that placed the cable)
\* the seed cable c is placed at p
Seeded(cs, pl, un, c, p) ==
    [cs |-> SetCentre(cs, c, p[1], p[2]),
     placed |-> Append(pl, c), unplaced |-> un,
     via |-> "seed", spacing |-> 0]

\* a cable that found no point and is not counted
Settled_uncounted(cs, pl, un, c, best) ==
    IF best # None
    THEN [cs |-> SetCentre(cs, c, best.x, best.y),
          placed |-> Append(pl, c), unplaced |-> un,
          via |-> best.via, spacing |-> best.spacing]
    ELSE [cs |-> cs, placed |-> pl, unplaced |-> un,
          via |-> "none", spacing |-> 0]

\* "if best is not None: cable[x], cable[y] = best; placed.append(cable)",
\* "if not placed_flag: unplaced += 1"
Settled(cs, pl, un, c, best) ==
    IF best # None
    THEN [cs |-> SetCentre(cs, c, best.x, best.y),
          placed |-> Append(pl, c), unplaced |-> un,
          via |-> best.via, spacing |-> best.spacing]
    ELSE [cs |-> cs, placed |-> pl, unplaced |-> un + 1,
          via |-> "none", spacing |-> 0]

PlaceOne(cs, pl, un, c, R, angle_offset, angle_count, seed_mode) ==
    IF Skipped(cs[c].r, R)
    THEN [cs |-> cs, placed |-> pl, unplaced |-> CountSkipped(un),
          via |-> "skipped", spacing |-> 0]
    ELSE IF pl = << >>
    THEN Seeded(cs, pl, un, c, SeedPoint(R, cs[c].r, angle_offset, seed_mode))
    ELSE Settled(cs, pl, un, c,
                 SearchFrom(1, cs, pl, R, cs[c].r, angle_offset, angle_count))

\* -------------------------------------------------- _place_cables_allow_overlap

\* 10000 * cos(0.7 i) and 10000 * sin(0.7 i), i = 1, 2, ...
SpiralCos == << 7648, 1700, -5048, -9422, -9365, -4903, 1865, 7756, 9999, 7539 >>
SpiralSin == << 6442, 9854, 8632, 3350, -3508, -8716, -9825, -6313, 168, 6570 >>

\* the spiral distance without the clamp to conduit_radius - r
SpiralDist_unclamped(R, r, i) == Round(Sqrt(49 * r * r * i), 10)

\* dist = min(conduit_radius - r, (0.7 * r) * math.sqrt(i))
SpiralDist(R, r, i) == Min(R - r, Round(Sqrt(49 * r * r * i), 10))

\* the position given to the cable of enumerate index i (the first is 0)
SpiralPoint(R, r, i) ==
    IF i = 0 THEN << 0, 0 >>
    ELSE LET dist == SpiralDist(R, r, i)
         IN  << Round(dist * SpiralCos[i], 10000), Round(dist * SpiralSin[i], 10000) >>

\* an overlap placer that skips nothing
OverlapSkipped_never(r, R) == FALSE

\* "r is None or r <= 0 or r > conduit_radius: continue"
OverlapSkipped(r, R) == r <= 0 \/ r > R

\* cable["x"], cable["y"] = x, y
PutAt(cs, c, p) == SetCentre(cs, c, p[1], p[2])

\* for i, cable in enumerate(cables), from the cable of index c = i + 1 on
RECURSIVE AllowOverlapFrom(_, _, _, _)
AllowOverlapFrom(c, cs, pl, R) ==
    IF c > Len(cs) THEN [cs |-> cs, placed |-> pl]
    ELSE IF OverlapSkipped(cs[c].r, R) THEN AllowOverlapFrom(c + 1, cs, pl, R)
    ELSE AllowOverlapFrom(c + 1, PutAt(cs, c, SpiralPoint(R, cs[c].r, c - 1)),
                          Append(pl, c), R)

place_cables_allow_overlap(cs, R) == AllowOverlapFrom(1, cs, << >>, R)

\* ------------------------------------------- the multi-seed retry and selection

\* seed_modes and offsets = [0.0, pi/36, pi/18, pi/12, pi/9]
SeedModes == << "center", "boundary" >>
Offsets == << 0, Pi \div 36, Pi \div 18, Pi \div 12, Pi \div 9 >>

\* the number of retry calls: for mode in seed_modes, for off in offsets
Retries == Len(SeedModes) * Len(Offsets)

\* the arguments of the call number a: 0 is the default call of line 2551,
\* 1.. are the retries in the order of the two loops
CallArgs(a) ==
    IF a = 0
    THEN [angle_offset |-> 0, angle_count |-> DefaultAngleCount, seed_mode |-> "center"]
    ELSE [angle_offset |-> Offsets[((a - 1) % Len(Offsets)) + 1],
          angle_count |-> RetryAngleCount,
          seed_mode |-> SeedModes[((a - 1) \div Len(Offsets)) + 1]]

\* best_extent = None
NoExtent == -1

\* the extent of a list of cables, read from the dicts as they are now:
\* max over c of math.hypot(c["x"], c["y"]) + c["r"]
Extent(cs, pl) == CurrentMax(cs, pl, 1)

\* "best_extent is None or extent < best_extent"
Tighter(extent, best_extent) == best_extent = NoExtent \/ extent < best_extent

\* "elif u2 < best_unplaced"
Fewer(u2, best_unplaced) == u2 < best_unplaced

\* the body of the retry loop after the call returned (p2, u2): the new
\* best_placed, best_unplaced, best_extent
SelectBest(best, cs, p2, u2) ==
    IF u2 = 0
    THEN LET extent == Extent(cs, p2)
         IN  IF Tighter(extent, best.extent)
             THEN [placed |-> p2, unplaced |-> u2, extent |-> extent]
             ELSE best
    ELSE IF Fewer(u2, best.unplaced)
         THEN [placed |-> p2, unplaced |-> u2, extent |-> best.extent]
         ELSE best

\* ------------------------------------------------------ _pack_circles_in_circle

\* spacing_options = [0.2, 0.0]
PackSpacingOptions == << 20, 0 >>

\* angles = [i * (math.pi / 18.0) for i in range(36)]
PackAngleCount == 36
PackAngle(i) == i * (Pi \div 18)

\* for ring in range(1, 12)
PackRingLimit == 12

\* best = None of the packer, whose points are tuples
NoPoint == << >>

\* fits of the packer without "if math.hypot(x, y) + rr > R: return False"
pack_fits_anywhere(pl, R, x, y, rr, spacing) ==
    \A k \in 1..Len(pl) :
        ~((x - pl[k][1]) * (x - pl[k][1]) + (y - pl[k][2]) * (y - pl[k][2])
            < (2 * rr + spacing) * (2 * rr + spacing))

\* fits of the packer comparing the squared distance with (rr + spacing)**2
pack_fits_one_radius(pl, R, x, y, rr, spacing) ==
    /\ ~(Hypot(x, y) + rr > R)
    /\ \A k \in 1..Len(pl) :
          ~((x - pl[k][1]) * (x - pl[k][1]) + (y - pl[k][2]) * (y - pl[k][2])
              < (rr + spacing) * (rr + spacing))

\* fits(x, y, rr, spacing) of the packer: inside R and 2 rr + spacing away
\* from every centre of the list placed (pl: a list of points)
pack_fits(pl, R, x, y, rr, spacing) ==
    /\ ~(Hypot(x, y) + rr > R)
    /\ \A k \in 1..Len(pl) :
          ~((x - pl[k][1]) * (x - pl[k][1]) + (y - pl[k][2]) * (y - pl[k][2])
              < (2 * rr + spacing) * (2 * rr + spacing))

\* circle_intersections of the packer: the same text as in _place_cables
pack_circle_intersections(x0, y0, r0, x1, y1, r1) ==
    circle_intersections(x0, y0, r0, x1, y1, r1)

\* candidates around every placed centre, for (ox, oy) in placed, for a in angles
PackTangentOne(pl, r, spacing) ==
    [ k \in 1..(Len(pl) * PackAngleCount) |->
        LET o == pl[((k - 1) \div PackAngleCount) + 1]
            p == Polar(2 * r + spacing, PackAngle((k - 1) % PackAngleCount))
        IN  << o[1] + p[1], o[2] + p[2] >> ]

\* the k-th pair (i, j), i < j, in the order of "for i ..., for j in range(i + 1, ...)"
PairAt(k, m) ==
    CHOOSE ij \in (1..m) \X (1..m) :
        /\ ij[1] < ij[2]
        /\ (ij[1] - 1) * m - ((ij[1] * (ij[1] - 1)) \div 2) + (ij[2] - ij[1]) = k

\* the first or second intersection of the pair, NoPoint where the circles do
\* not meet (the list candidates has no entry there)
PairPoint(pts, which) == IF pts = << >> THEN NoPoint ELSE pts[which]

\* candidates tangent to two placed circles, two slots for each pair
PackTangentTwo(pl, r, spacing) ==
    [ k \in 1..(Len(pl) * (Len(pl) - 1)) |->
        PairPoint(pack_circle_intersections(
                      pl[PairAt((k + 1) \div 2, Len(pl))[1]][1],
                      pl[PairAt((k + 1) \div 2, Len(pl))[1]][2],
                      2 * r + spacing,
                      pl[PairAt((k + 1) \div 2, Len(pl))[2]][1],
                      pl[PairAt((k + 1) \div 2, Len(pl))[2]][2],
                      2 * r + spacing),
                  ((k - 1) % 2) + 1) ]

PackCandidates(pl, r, spacing) ==
    PackTangentOne(pl, r, spacing) \o PackTangentTwo(pl, r, spacing)

\* the ranking loop of the packer, score = x * x + y * y: the first point, in
\* list order, of least score among those that fit; NoPoint if no point fits
PackRank(pts, pl, R, r, spacing) ==
    LET scored == [ i \in 1..Len(pts) |->
                      IF pts[i] # NoPoint /\ pack_fits(pl, R, pts[i][1], pts[i][2], r, spacing)
                      THEN pts[i][1] * pts[i][1] + pts[i][2] * pts[i][2]
                      ELSE -1 ] \o << >>
        fit == { i \in 1..Len(pts) : scored[i] >= 0 }
    IN  IF fit = {} THEN NoPoint
        ELSE pts[CHOOSE i \in fit :
                    \A j \in fit : /\ j < i => scored[i] < scored[j]
                                   /\ j > i => ~(scored[j] < scored[i])]

PackRingPoints(ring_r) ==
    [ k \in 1..PackAngleCount |-> Polar(ring_r, PackAngle(k - 1)) ]

RECURSIVE PackRingFallback(_, _, _, _, _)

\* "if best is not NoPoint: break", else the next ring
PackRingNext(best, ring, pl, R, r, spacing) ==
    IF best # NoPoint THEN best ELSE PackRingFallback(ring + 1, pl, R, r, spacing)

\* "ring fallback": for ring in range(1, 12), ring_r = ring * (r * 1.1)
PackRingFallback(ring, pl, R, r, spacing) ==
    IF ring >= PackRingLimit THEN NoPoint
    ELSE IF ring * Round(r * 11, 10) + r > R THEN NoPoint
    ELSE PackRingNext(PackRank(PackRingPoints(ring * Round(r * 11, 10)), pl, R, r, spacing),
                      ring, pl, R, r, spacing)

\* "if best is NoPoint: <ring fallback>"
PackBestOrRing(best, pl, R, r, spacing) ==
    IF best # NoPoint THEN best ELSE PackRingFallback(1, pl, R, r, spacing)

RECURSIVE PackSearchFrom(_, _, _, _)

\* "if best is not NoPoint: ... break", else the next spacing
PackBreakOrNext(best, si, pl, R, r) ==
    IF best # NoPoint THEN best ELSE PackSearchFrom(si + 1, pl, R, r)

\* one pass of the while loop: for spacing in spacing_options
PackSearchFrom(si, pl, R, r) ==
    IF si > Len(PackSpacingOptions) THEN NoPoint
    ELSE PackBreakOrNext(
             PackBestOrRing(PackRank(PackCandidates(pl, r, PackSpacingOptions[si]),
                                     pl, R, r, PackSpacingOptions[si]),
                            pl, R, r, PackSpacingOptions[si]),
             si, pl, R, r)

\* the early returns of _pack_circles_in_circle (1365-1370): whether the
\* packer returns there, and the list it returns
PackEarly(n, r, R) ==
    IF n = 0 \/ r = 0 \/ R = 0 \/ r <= 0 \/ R <= 0 THEN [returns |-> TRUE, list |-> << >>]
    ELSE IF r > R THEN [returns |-> TRUE, list |-> << >>]
    ELSE IF n = 1 THEN [returns |-> TRUE, list |-> << << 0, 0 >> >>]
    ELSE [returns |-> FALSE, list |-> << >>]

\* ----------------------------------------------- conductors of a drawn cable

\* margin = 0.6
InnerMargin == 60

\* for _ in range(15)
ShrinkTries == 15

\* r_cond_use when r_cond is missing: R_inner / max(1.6 * sqrt(n_cond), 1.6)
DefaultCondRadius(R_in, n) == Round(R_in * 1000, Max(Sqrt(2560000 * n), 1600))

\* r_cond_use before the shrink loop (2451-2454)
\* r_cond_use that keeps a given radius as it is
FirstCondRadius_unclamped(rc, R_in, n) ==
    IF rc <= 0 THEN DefaultCondRadius(R_in, n) ELSE rc

FirstCondRadius(rc, R_in, n) ==
    IF rc <= 0 THEN DefaultCondRadius(R_in, n) ELSE Min(rc, R_in)

\* r_cond_use *= 0.9
Shrunk(r) == Round(r * 9, 10)

\* a slice that fills the missing positions with the centre of the cable
Sliced_padded(positions, n) ==
    [ k \in 1..n |-> IF k <= Len(positions) THEN positions[k] ELSE << 0, 0 >> ]

\* conductor_positions[: int(n_cond)]
Sliced(positions, n) == SubSeq(positions, 1, Min(n, Len(positions)))

\* --------------------------------------------------------------------- state

VARIABLES
    conduit_radius,    \* conduit_radius
    cable_instances,   \* the list of cable dicts: r, and x, y once written
    overpacked,        \* overpacked, once line 2584 has computed it
    pc,                \* "call", "place", "overpack", "done"
    attempt,           \* the number of the _place_cables call, 0 = default
    cables_sorted,     \* _place_cables: cables_sorted (indices of dicts)
    idx,               \* _place_cables: position of the for loop
    placed,            \* _place_cables: placed (indices of dicts)
    unplaced,          \* _place_cables: unplaced
    last,              \* _place_cables: the branch the last iteration took
    best,              \* best_placed, best_unplaced, best_extent
    final_placed,      \* placed of the page, handed to _build_conduit_svg
    final_unplaced,    \* unplaced of the page
    mode,              \* "non-overlapping" or "overlap-allowed"
    returned,          \* what each call returned, as it was when it returned
    first,             \* the result of the first script run
    spc,               \* conductors of a cable: "off", "cable", "for", "while",
                       \* "return", "draw", "drawn"
    cable_r,           \* _build_conduit_svg: r of the cable drawn
    n_cond,            \* n_cond of the cable
    r_cond,            \* r_cond of the cable (0: missing)
    R_inner,           \* R_inner
    r_cond_use,        \* r_cond_use
    tries,             \* iterations of "for _ in range(15)" entered
    pack_r,            \* _pack_circles_in_circle: r of the call
    pack_placed,       \* _pack_circles_in_circle: placed (points)
    iters,             \* iterations of "while len(placed) < n" of the call
    conductor_positions,   \* conductor_positions
    conductors,        \* the conductor circles drawn (points)
    att                \* two _place_cables calls in progress at once

page_vars == << conduit_radius, cable_instances, overpacked, pc, attempt, cables_sorted,
                idx, placed, unplaced, last, best, final_placed, final_unplaced, mode,
                returned, run, first >>

svg_vars == << spc, cable_r, n_cond, r_cond, R_inner, r_cond_use, tries, pack_r,
               pack_placed, iters, conductor_positions, conductors >>

vars == << page_vars, svg_vars, att >>

\* the centres of a list of cables, read from the dicts
Centres(cs, pl) == [ k \in 1..Len(pl) |-> << cs[pl[k]].x, cs[pl[k]].y >> ]

NoBranch == [via |-> "", spacing |-> 0]

NoBest == [placed |-> << >>, unplaced |-> 0, extent |-> NoExtent]

\* cable_instances as lines 2499-2541 build it: for each row of the table,
\* qty dicts of the row's radius, without centre
FreshCables(r1, q1, r2, q2) ==
    [ k \in 1..(q1 + q2) |->
        [r |-> IF k <= q1 THEN r1 ELSE r2, x |-> 0, y |-> 0, has |-> FALSE] ]

\* the state when the layout block is entered, for a table of two rows of
\* at most MaxQty cables each
PageAt(radii, start) ==
    /\ conduit_radius \in radii
    /\ \E r1 \in Radii, r2 \in Radii, q1 \in 1..MaxQty, q2 \in 0..MaxQty :
          cable_instances = FreshCables(r1, q1, r2, q2)
    /\ overpacked = FALSE
    /\ pc = start
    /\ attempt = 0
    /\ cables_sorted = << >>
    /\ idx = 1
    /\ placed = << >>
    /\ unplaced = 0
    /\ last = NoBranch
    /\ best = NoBest
    /\ final_placed = << >>
    /\ final_unplaced = 0
    /\ mode = "non-overlapping"
    /\ returned = << >>
    /\ run = 1
    /\ first = None

\* no conductors are being drawn
SvgOff ==
    /\ spc = "off"
    /\ cable_r = 0
    /\ n_cond = 0
    /\ r_cond = 0
    /\ R_inner = 0
    /\ r_cond_use = 0
    /\ tries = 0
    /\ pack_r = 0
    /\ pack_placed = << >>
    /\ iters = 0
    /\ conductor_positions = << >>
    /\ conductors = << >>

\* no two calls are in progress at once
NoAtt == att = << >>

\* line 2496 lets only a positive conduit radius through to the layout block
Init == PageAt(ConduitRadii, "call") /\ SvgOff /\ NoAtt

\* _place_cables is entered (2264-2298)
Call ==
    /\ pc = "call"
    /\ pc' = "place"
    /\ cables_sorted' = cables_sorted_of(cable_instances)
    /\ idx' = 1
    /\ placed' = << >>
    /\ unplaced' = 0
    /\ last' = NoBranch
    /\ UNCHANGED << conduit_radius, cable_instances, overpacked, attempt, best,
                    final_placed, final_unplaced, mode, returned, run, first >>
    /\ UNCHANGED << svg_vars, att >>

\* the state of the call after an iteration with outcome res
Iterated(res) ==
    /\ cable_instances' = res.cs
    /\ placed' = res.placed
    /\ unplaced' = res.unplaced
    /\ last' = [via |-> res.via, spacing |-> res.spacing]

\* one iteration of the loop over cables_sorted (2300-2389)
PlaceStep ==
    /\ pc = "place"
    /\ idx <= Len(cables_sorted)
    /\ Iterated(PlaceOne(cable_instances, placed, unplaced, cables_sorted[idx],
                         conduit_radius, CallArgs(attempt).angle_offset,
                         CallArgs(attempt).angle_count, CallArgs(attempt).seed_mode))
    /\ idx' = idx + 1
    /\ UNCHANGED << conduit_radius, overpacked, pc, attempt, cables_sorted, best,
                    final_placed, final_unplaced, mode, returned, run, first >>
    /\ UNCHANGED << svg_vars, att >>

\* what a call returns: the list placed, the count, and (for the record) the
\* centres and the extent the dicts hold at that moment
Returned ==
    [placed |-> placed, unplaced |-> unplaced,
     centres |-> Centres(cable_instances, placed),
     extent |-> Extent(cable_instances, placed)]

\* retries that are run whatever the default call returned
RetriesRun_always(un) == TRUE

\* "if unplaced > 0:" of line 2553
RetriesRun(un) == un > 0

\* the default call returns (2551-2558)
ReturnDefault ==
    /\ pc = "place"
    /\ idx > Len(cables_sorted)
    /\ attempt = 0
    /\ returned' = Append(returned, Returned)
    /\ final_placed' = placed
    /\ final_unplaced' = unplaced
    /\ IF RetriesRun(unplaced)
       THEN /\ best' = [placed |-> placed, unplaced |-> unplaced, extent |-> NoExtent]
            /\ attempt' = 1
            /\ pc' = "call"
       ELSE /\ pc' = "overpack"
            /\ UNCHANGED << best, attempt >>
    /\ UNCHANGED << conduit_radius, cable_instances, overpacked, cables_sorted, idx,
                    placed, unplaced, last, mode, run, first >>
    /\ UNCHANGED << svg_vars, att >>

\* a retry call returns (2561-2583)
ReturnRetry ==
    /\ pc = "place"
    /\ idx > Len(cables_sorted)
    /\ attempt >= 1
    /\ returned' = Append(returned, Returned)
    /\ best' = SelectBest(best, cable_instances, placed, unplaced)
    /\ IF attempt < Retries
       THEN /\ attempt' = attempt + 1
            /\ pc' = "call"
            /\ UNCHANGED << final_placed, final_unplaced >>
       ELSE /\ final_placed' = best'.placed
            /\ final_unplaced' = best'.unplaced
            /\ pc' = "overpack"
            /\ UNCHANGED attempt
    /\ UNCHANGED << conduit_radius, cable_instances, overpacked, cables_sorted, idx,
                    placed, unplaced, last, mode, run, first >>
    /\ UNCHANGED << svg_vars, att >>

\* a fallback taken on the over-fill signal alone
TakesFallback_on_signal(un, over) == over

\* "if unplaced > 0 and overpacked"
TakesFallback(un, over) == un > 0 /\ over

\* The over-fill signal is an input: line 2584 computes it from the areas of
\* the page, which the model does not carry.  A second script run on the same
\* inputs computes the same signal.
OverpackedInputs == IF run = 1 THEN BOOLEAN ELSE {first.overpacked}

\* placed = _place_cables_allow_overlap(...): the dicts and the list after it
Overlapped(res) ==
    /\ cable_instances' = res.cs
    /\ final_placed' = res.placed

\* the overlap fallback is taken (2584-2590)
OverlapFallback ==
    /\ pc = "overpack"
    /\ \E over \in OverpackedInputs :
          /\ TakesFallback(final_unplaced, over)
          /\ overpacked' = over
    /\ Overlapped(place_cables_allow_overlap(cable_instances, conduit_radius))
    /\ mode' = "overlap-allowed"
    /\ pc' = "done"
    /\ UNCHANGED << conduit_radius, attempt, cables_sorted, idx, placed,
                    unplaced, last, best, final_unplaced, returned, run, first >>
    /\ UNCHANGED << svg_vars, att >>

\* the layout of the search is rendered as it is (2584-2591)
Render ==
    /\ pc = "overpack"
    /\ \E over \in OverpackedInputs :
          /\ ~TakesFallback(final_unplaced, over)
          /\ overpacked' = over
    /\ mode' = "non-overlapping"
    /\ pc' = "done"
    /\ UNCHANGED << conduit_radius, cable_instances, attempt, cables_sorted,
                    idx, placed, unplaced, last, best, final_placed, final_unplaced,
                    returned, run, first >>
    /\ UNCHANGED << svg_vars, att >>

\* what the script run hands to the renderer and the notes
Result ==
    [placed |-> final_placed,
     centres |-> Centres(cable_instances, final_placed),
     unplaced |-> final_unplaced,
     mode |-> mode,
     overpacked |-> overpacked]

\* The page is run again on the same inputs (a Streamlit rerun): lines
\* 2499-2541 build the cable dicts anew and the layout is computed afresh.
Rerun ==
    /\ pc = "done"
    /\ run = 1
    /\ run' = 2
    /\ first' = Result
    /\ cable_instances' =
          [ k \in 1..Len(cable_instances) |->
              [r |-> cable_instances[k].r, x |-> 0, y |-> 0, has |-> FALSE] ]
    /\ overpacked' = FALSE
    /\ pc' = "call"
    /\ attempt' = 0
    /\ cables_sorted' = << >>
    /\ idx' = 1
    /\ placed' = << >>
    /\ unplaced' = 0
    /\ last' = NoBranch
    /\ best' = NoBest
    /\ final_placed' = << >>
    /\ final_unplaced' = 0
    /\ mode' = "non-overlapping"
    /\ returned' = << >>
    /\ UNCHANGED conduit_radius
    /\ UNCHANGED << svg_vars, att >>

Next ==
    \/ Call
    \/ PlaceStep
    \/ ReturnDefault
    \/ ReturnRetry
    \/ OverlapFallback
    \/ Render

Spec == Init /\ [][Next]_vars

\* two script runs on the same inputs
NextTwice ==
    \/ Next
    \/ Rerun

SpecTwice == Init /\ [][NextTwice]_vars

\* ------------------------------------------ drawing the conductors of a cable

\* r of a drawn cable, int(n_cond) and r_cond (0: missing) of its table row
CableRadii == {50, 220, 350, 600}
CondCounts == {0, 1, 2, 3, 4, 7, 12}
CondRadii == {0, 100, 150, 1000}

\* the layout block is not running
PageOff ==
    /\ conduit_radius \in ConduitRadii
    /\ cable_instances = << >>
    /\ overpacked = FALSE
    /\ pc = "svg"
    /\ attempt = 0
    /\ cables_sorted = << >>
    /\ idx = 1
    /\ placed = << >>
    /\ unplaced = 0
    /\ last = NoBranch
    /\ best = NoBest
    /\ final_placed = << >>
    /\ final_unplaced = 0
    /\ mode = "non-overlapping"
    /\ returned = << >>
    /\ run = 1
    /\ first = None

\* _build_conduit_svg has drawn the circle of a cable (2433-2446)
InitConductors ==
    /\ PageOff
    /\ NoAtt
    /\ spc = "cable"
    /\ cable_r \in CableRadii
    /\ n_cond \in CondCounts
    /\ r_cond \in CondRadii
    /\ R_inner = 0
    /\ r_cond_use = 0
    /\ tries = 0
    /\ pack_r = 0
    /\ pack_placed = << >>
    /\ iters = 0
    /\ conductor_positions = << >>
    /\ conductors = << >>

\* "if n_cond: ... if R_inner > 0: ..." up to the shrink loop (2447-2457)
ConductorsEntry ==
    /\ spc = "cable"
    /\ R_inner' = IF n_cond # 0 THEN cable_r - InnerMargin ELSE R_inner
    /\ IF n_cond # 0 /\ cable_r - InnerMargin > 0
       THEN /\ r_cond_use' = FirstCondRadius(r_cond, cable_r - InnerMargin, n_cond)
            /\ spc' = "for"
       ELSE /\ spc' = "drawn"
            /\ UNCHANGED r_cond_use
    /\ UNCHANGED << cable_r, n_cond, r_cond, tries, pack_r, pack_placed, iters,
                    conductor_positions, conductors >>
    /\ UNCHANGED << page_vars, att >>

\* conductor_positions = <the list returned>, then "if len(...) >= n: break"
\* and "r_cond_use *= 0.9" (2459-2462)
\* a shrink loop without "if len(conductor_positions) >= int(n_cond): break"
Packed_no_break(result) ==
    /\ conductor_positions' = result
    /\ r_cond_use' = Shrunk(r_cond_use)
    /\ spc' = IF tries' < ShrinkTries THEN "for" ELSE "draw"

Packed(result) ==
    /\ conductor_positions' = result
    /\ IF Len(result) >= n_cond
       THEN /\ spc' = "draw"
            /\ UNCHANGED r_cond_use
       ELSE /\ r_cond_use' = Shrunk(r_cond_use)
            /\ spc' = IF tries' < ShrinkTries THEN "for" ELSE "draw"

\* the packer is on its way to the while loop: placed.append((0.0, 0.0))
PackStarted ==
    /\ pack_placed' = << << 0, 0 >> >>
    /\ spc' = "while"
    /\ UNCHANGED << conductor_positions, r_cond_use >>

\* the packer returns early with the list early, or goes on
EarlyOrStarted(early) ==
    IF early.returns
    THEN Packed(early.list) /\ UNCHANGED pack_placed
    ELSE PackStarted

\* an iteration of the shrink loop calls _pack_circles_in_circle (2458-2459,
\* 1363-1403)
PackCall ==
    /\ spc = "for"
    /\ tries < ShrinkTries
    /\ tries' = tries + 1
    /\ pack_r' = r_cond_use
    /\ iters' = 0
    /\ EarlyOrStarted(PackEarly(n_cond, r_cond_use, R_inner))
    /\ UNCHANGED << cable_r, n_cond, r_cond, R_inner, conductors >>
    /\ UNCHANGED << page_vars, att >>

\* the while loop without "if not placed_flag: break"
PackSettled_no_break(point) ==
    IF point # NoPoint
    THEN pack_placed' = Append(pack_placed, point) /\ spc' = "while"
    ELSE spc' = "while" /\ UNCHANGED pack_placed

\* "if best is not None: placed.append(best)", "if not placed_flag: break"
PackSettled(point) ==
    IF point # NoPoint
    THEN pack_placed' = Append(pack_placed, point) /\ spc' = "while"
    ELSE spc' = "return" /\ UNCHANGED pack_placed

\* one iteration of "while len(placed) < n" (1404-1455)
PackStep ==
    /\ spc = "while"
    /\ Len(pack_placed) < n_cond
    /\ PackSettled(PackSearchFrom(1, pack_placed, R_inner, pack_r))
    /\ iters' = iters + 1
    /\ UNCHANGED << cable_r, n_cond, r_cond, R_inner, r_cond_use, tries, pack_r,
                    conductor_positions, conductors >>
    /\ UNCHANGED << page_vars, att >>

\* the packer returns placed (1457) to the shrink loop (2459-2462)
PackReturn ==
    /\ \/ spc = "return"
       \/ spc = "while" /\ Len(pack_placed) >= n_cond
    /\ UNCHANGED << cable_r, n_cond, r_cond, R_inner, tries, pack_r, pack_placed,
                    iters, conductors >>
    /\ Packed(pack_placed)
    /\ UNCHANGED << page_vars, att >>

\* for (dx, dy) in conductor_positions[: int(n_cond)]: a circle of radius
\* r_cond_use (2464-2469)
DrawConductors ==
    /\ spc = "draw"
    /\ conductors' = Sliced(conductor_positions, n_cond)
    /\ spc' = "drawn"
    /\ UNCHANGED << cable_r, n_cond, r_cond, R_inner, r_cond_use, tries, pack_r,
                    pack_placed, iters, conductor_positions >>
    /\ UNCHANGED << page_vars, att >>

NextConductors ==
    \/ ConductorsEntry
    \/ PackCall
    \/ PackStep
    \/ PackReturn
    \/ DrawConductors

SpecConductors == InitConductors /\ [][NextConductors]_vars

\* ------------------------------------------------- a radius that is not positive

\* conduit radii the functions of the layout block are applied to; 0 is also
\* the None of _area_to_radius (1361)
AnyRadii == {-1000, 0, 1000}

\* "if not conduit_radius: st.warning(...)", "else:" the layout block
\* (2495-2498)
Guard ==
    /\ pc = "guard"
    /\ pc' = IF conduit_radius = 0 THEN "warned" ELSE "call"
    /\ UNCHANGED << conduit_radius, cable_instances, overpacked, attempt, cables_sorted,
                    idx, placed, unplaced, last, best, final_placed, final_unplaced,
                    mode, returned, run, first >>
    /\ UNCHANGED << svg_vars, att >>

\* the page at its guard with the radius _area_to_radius gives (None or
\* positive), or the functions of the layout block applied to any radius
InitAnyRadius ==
    /\ \/ PageAt({ R \in AnyRadii : R >= 0 }, "guard")
       \/ PageAt(AnyRadii, "call")
    /\ SvgOff
    /\ NoAtt

NextAnyRadius ==
    \/ Guard
    \/ Next

SpecAnyRadius == InitAnyRadius /\ [][NextAnyRadius]_vars

\* ---------------------------------------- one call with 36 and with 48 angles

\* conduit radii and tables (r1, q1, r2, q2) that _place_cables is called
\* with once with angle_count = 36 and once with angle_count = 48, both
\* with seed_mode = "center" and angle_offset = 0.0
AngleRadii == {800, 1000}
AngleTables ==
    { << 300, 5, 200, 3 >>, << 300, 6, 200, 1 >>, << 250, 5, 220, 2 >>,
      << 220, 4, 150, 3 >>, << 350, 2, 220, 2 >>, << 350, 3, 0, 0 >>,
      << 450, 2, 220, 5 >> }

InitAngles ==
    /\ conduit_radius \in AngleRadii
    /\ \E t \in AngleTables : cable_instances = FreshCables(t[1], t[2], t[3], t[4])
    /\ overpacked = FALSE
    /\ pc = "call"
    /\ attempt = 0
    /\ cables_sorted = << >>
    /\ idx = 1
    /\ placed = << >>
    /\ unplaced = 0
    /\ last = NoBranch
    /\ best = NoBest
    /\ final_placed = << >>
    /\ final_unplaced = 0
    /\ mode = "non-overlapping"
    /\ returned = << >>
    /\ run = 1
    /\ first = None
    /\ SvgOff
    /\ NoAtt

\* the call returns (2391); the result is kept
ReturnAngles ==
    /\ pc = "place"
    /\ idx > Len(cables_sorted)
    /\ returned' = Append(returned, Returned)
    /\ pc' = IF attempt = 0 THEN "again" ELSE "compared"
    /\ UNCHANGED << conduit_radius, cable_instances, overpacked, attempt, cables_sorted,
                    idx, placed, unplaced, last, best, final_placed, final_unplaced,
                    mode, run, first >>
    /\ UNCHANGED << svg_vars, att >>

\* the same table, as new dicts, for the call with 48 angles: the arguments
\* of the first retry (2561-2567) are angle_offset = 0.0, angle_count = 48,
\* seed_mode = "center"
CallAgain ==
    /\ pc = "again"
    /\ cable_instances' =
          [ k \in 1..Len(cable_instances) |->
              [r |-> cable_instances[k].r, x |-> 0, y |-> 0, has |-> FALSE] ]
    /\ attempt' = 1
    /\ pc' = "call"
    /\ UNCHANGED << conduit_radius, overpacked, cables_sorted, idx, placed, unplaced,
                    last, best, final_placed, final_unplaced, mode, returned, run,
                    first >>
    /\ UNCHANGED << svg_vars, att >>

NextAngles ==
    \/ Call
    \/ PlaceStep
    \/ ReturnAngles
    \/ CallAgain

SpecAngles == InitAngles /\ [][NextAngles]_vars

\* ------------------------------------------- two calls in progress at once

\* the pairs of calls of the search that are interleaved (numbers as in
\* CallArgs) and the tables (r1, q1, r2, q2) they are given
InterleavedPairs == { << 0, 1 >>, << 1, 2 >>, << 1, 6 >> }
InterleavedTables ==
    { << 220, 2, 0, 0 >>, << 220, 3, 0, 0 >>, << 350, 2, 220, 1 >>,
      << 350, 1, 220, 2 >>, << 600, 1, 220, 2 >> }

\* the locals of call number a at its entry (2264-2298), and, for reference,
\* the same call run alone on dicts of its own (the solo fields)
Frame(a, cs) ==
    [a |-> a,
     sorted |-> cables_sorted_of(cs),
     idx |-> 1,
     placed |-> << >>,
     unplaced |-> 0,
     chosen |-> << >>,
     solo_cs |-> cs,
     solo_placed |-> << >>,
     solo_unplaced |-> 0,
     solo_chosen |-> << >>]

InitInterleaved ==
    /\ conduit_radius \in ConduitRadii
    /\ \E t \in InterleavedTables : cable_instances = FreshCables(t[1], t[2], t[3], t[4])
    /\ \E ab \in InterleavedPairs :
          att = << Frame(ab[1], cable_instances), Frame(ab[2], cable_instances) >>
    /\ overpacked = FALSE
    /\ pc = "interleaved"
    /\ attempt = 0
    /\ cables_sorted = << >>
    /\ idx = 1
    /\ placed = << >>
    /\ unplaced = 0
    /\ last = NoBranch
    /\ best = NoBest
    /\ final_placed = << >>
    /\ final_unplaced = 0
    /\ mode = "non-overlapping"
    /\ returned = << >>
    /\ run = 1
    /\ first = None
    /\ SvgOff

\* the centres a call has written for the cables it placed, in the order of
\* placing: cable["x"], cable["y"] = ... (2311-2312, 2377-2378)
Chosen(chosen, pl, res) ==
    IF res.placed = pl THEN chosen
    ELSE Append(chosen, << res.cs[res.placed[Len(res.placed)]].x,
                           res.cs[res.placed[Len(res.placed)]].y >>)

\* call p has done one iteration of its loop with outcome res on the dicts
\* both calls were given, and with outcome solo when run alone
Stepped(p, res, solo) ==
    /\ cable_instances' = res.cs
    /\ att' = [att EXCEPT ![p] =
                 [a |-> att[p].a,
                  sorted |-> att[p].sorted,
                  idx |-> att[p].idx + 1,
                  placed |-> res.placed,
                  unplaced |-> res.unplaced,
                  chosen |-> Chosen(att[p].chosen, att[p].placed, res),
                  solo_cs |-> solo.cs,
                  solo_placed |-> solo.placed,
                  solo_unplaced |-> solo.unplaced,
                  solo_chosen |-> Chosen(att[p].solo_chosen, att[p].solo_placed, solo)]]

\* one iteration of "for cable in cables_sorted" (2300-2389) of call p
StepOf(p) ==
    /\ pc = "interleaved"
    /\ att[p].idx <= Len(att[p].sorted)
    /\ Stepped(p,
               PlaceOne(cable_instances, att[p].placed, att[p].unplaced,
                        att[p].sorted[att[p].idx], conduit_radius,
                        CallArgs(att[p].a).angle_offset, CallArgs(att[p].a).angle_count,
                        CallArgs(att[p].a).seed_mode),
               PlaceOne(att[p].solo_cs, att[p].solo_placed, att[p].solo_unplaced,
                        att[p].sorted[att[p].idx], conduit_radius,
                        CallArgs(att[p].a).angle_offset, CallArgs(att[p].a).angle_count,
                        CallArgs(att[p].a).seed_mode))
    /\ UNCHANGED << conduit_radius, overpacked, pc, attempt, cables_sorted, idx, placed,
                    unplaced, last, best, final_placed, final_unplaced, mode, returned,
                    run, first >>
    /\ UNCHANGED svg_vars

NextInterleaved == \E p \in {1, 2} : StepOf(p)

SpecInterleaved == InitInterleaved /\ [][NextInterleaved]_vars

\* ----------------------------------------------------- the whole computation

\* the layout block of a script run, or the drawing of one cable's conductors
InitLayout ==
    \/ Init
    \/ InitConductors

NextLayout ==
    \/ Next
    \/ NextConductors

SpecLayout == InitLayout /\ [][NextLayout]_vars

\* ------------------------------------------------------------------- claims

\* no two cables of the list pl overlap, by the centres the dicts hold
Separated(cs, pl) ==
    \A i, j \in 1..Len(pl) :
        i < j =>
            LET dx == cs[pl[i]].x - cs[pl[j]].x
                dy == cs[pl[i]].y - cs[pl[j]].y
                sep == cs[pl[i]].r + cs[pl[j]].r
            IN  dx * dx + dy * dy >= sep * sep

\* every cable of the list pl lies inside the conduit, up to one unit of the
\* model's resolution (the epsilon of the containment invariant)
Contained(cs, pl, R) ==
    \A k \in 1..Len(pl) :
        Hypot(cs[pl[k]].x, cs[pl[k]].y) + cs[pl[k]].r <= R + 1

\* a call of _place_cables is about to return
AtReturn == pc = "place" /\ idx > Len(cables_sorted)

\* the calls that placed every cable, and the least extent among them
FullCalls == { k \in 1..Len(returned) : returned[k].unplaced = 0 }
LeastExtent(ks) ==
    CHOOSE e \in { returned[k].extent : k \in ks } :
        \A k \in ks : e <= returned[k].extent
LeastUnplaced ==
    CHOOSE u \in { returned[k].unplaced : k \in 1..Len(returned) } :
        \A k \in 1..Len(returned) : u <= returned[k].unplaced

\* the layout handed to the renderer is the layout the call number k returned
IsLayoutOf(k) ==
    /\ final_placed = returned[k].placed
    /\ Centres(cable_instances, final_placed) = returned[k].centres

\* C1: in non-overlap mode the layout handed to the renderer, after the
\* default call and all retries on the same cable collection, has no two
\* cables whose centres are closer than the sum of their radii.
C1_FinalLayoutSeparated ==
    (pc = "done" /\ mode = "non-overlapping")
        => Separated(cable_instances, final_placed)

\* C2: the centres of the list a call returned are not changed by any later
\* call on the same cable collection.
C2_ReturnedCentresKept ==
    \A k \in 1..Len(returned) :
        Centres(cable_instances, returned[k].placed) = returned[k].centres

\* C3: within one _place_cables call, after every iteration, any two cables
\* of the list placed are at least the sum of their radii apart.
C3_RunSeparated == pc = "place" => Separated(cable_instances, placed)

C3_Witness ==
    /\ pc = "place"
    /\ Len(placed) >= 3
    /\ last.via = "tangent"
    /\ CallArgs(attempt).seed_mode = "boundary"

\* the point the ring fallback yields for the cable the loop is at, for every
\* spacing of spacing_options, lies inside the conduit
RingFallbackContained ==
    (pc = "place" /\ idx <= Len(cables_sorted) /\ placed # << >>)
        => LET a == CallArgs(attempt)
               r == cable_instances[cables_sorted[idx]].r
           IN  \A si \in 1..Len(SpacingOptions) :
                  LET ring == RingFallback(1, cable_instances, placed, conduit_radius, r,
                                           SpacingOptions[si],
                                           CurrentMax(cable_instances, placed, 1),
                                           a.angle_offset, a.angle_count)
                  IN  (~Skipped(r, conduit_radius) /\ ring # None)
                          => Hypot(ring.x, ring.y) + r <= conduit_radius + 1

\* C4: every cable placed by _place_cables - the seed in either seed mode,
\* the cables placed on a tangent candidate, and any point the ring fallback
\* yields - lies inside the conduit (up to the resolution of the arithmetic).
C4_RunContained ==
    /\ pc = "place" => Contained(cable_instances, placed, conduit_radius)
    /\ RingFallbackContained

C4_Witness ==
    /\ pc = "place"
    /\ CallArgs(attempt).seed_mode = "boundary"
    /\ CallArgs(attempt).angle_offset > 0
    /\ Len(placed) >= 2
    /\ last.via = "tangent"

\* C5: every cable positioned by the overlap-allowed placer lies inside the
\* conduit (up to the resolution of the arithmetic).
C5_OverlapContained ==
    mode = "overlap-allowed" => Contained(cable_instances, final_placed, conduit_radius)

C5_Witness ==
    /\ mode = "overlap-allowed"
    /\ Len(final_placed) >= 3
    /\ \E k \in 2..Len(final_placed) :
          LET c == final_placed[k]
              r == cable_instances[c].r
          IN  conduit_radius - r < Round(Sqrt(49 * r * r * (c - 1)), 10)

\* C6: a cable whose radius is greater than the conduit radius is in no list
\* of placed cables, of either placer.
C6_OversizedNeverPlaced ==
    /\ \A k \in 1..Len(placed) : cable_instances[placed[k]].r <= conduit_radius
    /\ \A k \in 1..Len(final_placed) : cable_instances[final_placed[k]].r <= conduit_radius

C6_Witness ==
    /\ pc = "done"
    /\ mode = "overlap-allowed"
    /\ final_placed # << >>
    /\ \E c \in 1..Len(cable_instances) : cable_instances[c].r > conduit_radius

\* the cables a call skips for their radius, and those of valid radius it
\* did not place
SkippedCables ==
    { c \in 1..Len(cable_instances) : Skipped(cable_instances[c].r, conduit_radius) }
ValidNotPlaced ==
    { c \in 1..Len(cable_instances) :
        /\ ~Skipped(cable_instances[c].r, conduit_radius)
        /\ \A k \in 1..Len(placed) : placed[k] # c }

\* C7 as claimed: a cable of radius <= 0 or > R is not counted unplaced; the
\* count a call returns is the number of cables of valid radius it failed to
\* place.
C7_SkippedNotCounted == AtReturn => unplaced = Cardinality(ValidNotPlaced)

\* C7 as amended: a cable of radius <= 0 or > R is never placed and IS counted
\* in the unplaced count; the count a call returns is the number of such
\* cables plus the number of cables of valid radius it failed to place.
C7_SkippedCountedUnplaced ==
    AtReturn =>
        /\ \A k \in 1..Len(placed) : placed[k] \notin SkippedCables
        /\ unplaced = Cardinality(SkippedCables) + Cardinality(ValidNotPlaced)

C7_Witness ==
    /\ AtReturn
    /\ SkippedCables # {}
    /\ ValidNotPlaced # {}
    /\ placed # << >>

\* C8: if some call placed every cable, the layout handed to the renderer is
\* the layout of such a call whose extent is the least among them.
C8_TightestReturned ==
    (pc = "done" /\ mode = "non-overlapping" /\ FullCalls # {})
        => \E k \in FullCalls :
              /\ returned[k].extent = LeastExtent(FullCalls)
              /\ IsLayoutOf(k)

\* C9: if no call placed every cable, the layout handed to the renderer is
\* that of the earliest call whose unplaced count is least, and the unplaced
\* count reported is that least count.
C9_EarliestFewestReturned ==
    (pc = "done" /\ mode = "non-overlapping" /\ FullCalls = {})
        => /\ final_unplaced = LeastUnplaced
           /\ \E k \in 1..Len(returned) :
                 /\ returned[k].unplaced = LeastUnplaced
                 /\ \A j \in 1..(k - 1) : returned[j].unplaced > LeastUnplaced
                 /\ IsLayoutOf(k)

Attempted == { cables_sorted[k] : k \in 1..(idx - 1) }

\* C11: in a _place_cables run every cable is gone through exactly once, a
\* cable that cannot be placed is counted unplaced and the run goes on, so
\* after k iterations placed and unplaced add up to k, and at the end to the
\* number of input cables.
C11_PlacedPlusUnplaced ==
    pc = "place" =>
        /\ idx <= Len(cables_sorted) + 1
        /\ Len(placed) + unplaced = idx - 1
        /\ \A c \in Attempted :
              Cardinality({ k \in 1..(idx - 1) : cables_sorted[k] = c }) = 1
        /\ AtReturn => Len(placed) + unplaced = Len(cable_instances)

\* a cable of valid radius found no point, and a later cable was placed
C11_Witness ==
    /\ AtReturn
    /\ last.via = "tangent"
    /\ ValidNotPlaced # {}

\* the cables the overlap placer gives a position to
OverlapValid ==
    { c \in 1..Len(cable_instances) :
        cable_instances[c].r > 0 /\ cable_instances[c].r <= conduit_radius }

\* C12: the overlap-allowed placer returns every cable with 0 < r <= R once,
\* no other cable, and in input order.
C12_OverlapOnePerValid ==
    mode = "overlap-allowed" =>
        /\ { final_placed[k] : k \in 1..Len(final_placed) } = OverlapValid
        /\ \A i, j \in 1..Len(final_placed) : i < j => final_placed[i] < final_placed[j]
        /\ \A k \in 1..Len(final_placed) : cable_instances[final_placed[k]].has

C12_Witness ==
    /\ mode = "overlap-allowed"
    /\ Len(final_placed) >= 2
    /\ \E c \in 1..Len(cable_instances) : c \notin OverlapValid
    /\ \E c \in OverlapValid : c > 1 /\ (c - 1) \notin OverlapValid

\* C13: the overlap placer runs only once the search - the default call and,
\* as it left cables unplaced, all the retries - is over with cables unplaced
\* and the over-fill signal set; otherwise the list the search selected is
\* what is rendered, in non-overlapping mode.
C13_FallbackOnlyWhenOverpacked ==
    /\ pc # "done" => mode = "non-overlapping"
    /\ pc = "done" =>
          /\ mode = "overlap-allowed" <=> (final_unplaced > 0 /\ overpacked)
          /\ mode = "overlap-allowed" => Len(returned) = 1 + Retries
          /\ mode = "non-overlapping" =>
                final_placed = IF Len(returned) = 1 THEN returned[1].placed ELSE best.placed

C13_Witness ==
    /\ pc = "done"
    /\ mode = "overlap-allowed"
    /\ final_unplaced > 0
    /\ overpacked
    /\ Len(final_placed) > Len(best.placed)

\* the over-fill signal is set and every cable was placed: no fallback
C13_WitnessNoFallback ==
    /\ pc = "done"
    /\ mode = "non-overlapping"
    /\ overpacked
    /\ final_unplaced = 0

\* the positions the last call of the packer has returned or is building
PackerLists ==
    IF spc \in {"while", "return"} THEN {pack_placed}
    ELSE IF spc \in {"for", "draw"} /\ tries > 0 THEN {conductor_positions}
    ELSE IF spc = "drawn" /\ tries > 0 THEN {conductor_positions, conductors}
    ELSE {}

\* C14: every position of _pack_circles_in_circle(n, r, R_inner), for every
\* conductor count and every radius the shrink loop tries, lies with its
\* circle of radius r inside the inner circle: dist + r <= R_inner.
C14_NestedContained ==
    \A l \in PackerLists : \A k \in 1..Len(l) :
        Hypot(l[k][1], l[k][2]) + pack_r <= R_inner

C14_Witness ==
    /\ spc = "drawn"
    /\ tries > 1
    /\ Len(conductors) >= 3
    /\ \E k \in 1..Len(conductors) :
          Hypot(conductors[k][1], conductors[k][2]) + pack_r = R_inner

\* C15: the positions of one packer result are pairwise at least 2r apart.
C15_NestedSeparated ==
    \A l \in PackerLists : \A i, j \in 1..Len(l) :
        i < j =>
            (l[i][1] - l[j][1]) * (l[i][1] - l[j][1])
              + (l[i][2] - l[j][2]) * (l[i][2] - l[j][2])
                >= (2 * pack_r) * (2 * pack_r)

C15_Witness ==
    /\ spc = "drawn"
    /\ Len(conductors) = 12
    /\ \E i, j \in 1..Len(conductors) :
          /\ i < j
          /\ (conductors[i][1] - conductors[j][1]) * (conductors[i][1] - conductors[j][1])
               + (conductors[i][2] - conductors[j][2]) * (conductors[i][2] - conductors[j][2])
                 = (2 * pack_r) * (2 * pack_r)

\* the k-th drawn position was accepted by fits of the last packer call
\* against the positions before it, or is the first circle at the origin
AcceptedAt(k) ==
    IF k = 1 THEN conductors[1] = << 0, 0 >> /\ pack_r <= R_inner
    ELSE pack_fits(SubSeq(conductors, 1, k - 1), R_inner,
                   conductors[k][1], conductors[k][2], pack_r, 0)

\* the shrink loop has used its 15 tries without a full result
Exhausted == tries = ShrinkTries /\ Len(conductor_positions) < n_cond

\* C16: the drawn conductors are never fabricated: at most n_cond of them,
\* each one a position the final packer call accepted and returned, and on
\* an exhausted budget exactly the positions of the final call, fewer than
\* n_cond.
C16_NeverFabricated ==
    spc = "drawn" =>
        /\ Len(conductors) <= n_cond
        /\ Len(conductors) <= Len(conductor_positions)
        /\ \A k \in 1..Len(conductors) : conductors[k] = conductor_positions[k]
        /\ \A k \in 1..Len(conductors) : AcceptedAt(k)
        /\ tries > 0 /\ ~PackEarly(n_cond, pack_r, R_inner).returns
              => conductor_positions = pack_placed
        /\ tries = 0 => conductors = << >>
        /\ Exhausted => conductors = conductor_positions /\ Len(conductors) < n_cond
        /\ ~Exhausted /\ tries > 0 => Len(conductors) = n_cond

C16_Witness ==
    /\ spc = "drawn"
    /\ Exhausted
    /\ Len(conductors) > 1

\* the number of circles the packer holds after iters iterations of its
\* while loop: every iteration has added one circle, except a last one that
\* has left the loop
WhileAddsOrExits ==
    /\ spc = "while" => Len(pack_placed) = 1 + iters
    /\ spc = "return" => Len(pack_placed) = iters /\ iters >= 1
    /\ iters <= Max(n_cond - 1, 0)

\* C17: every layout computation ends within fixed budgets: at most 11 runs
\* of _place_cables (1 default + 2 seed modes x 5 offsets), each of one loop
\* iteration per item with 3 spacings of at most 15 rings, at most 15 packer
\* calls per parent cable, and in every packer call at most n - 1 iterations
\* of the while loop, each adding one circle or leaving the loop.
C17_FixedBudgets ==
    /\ 1 + Retries = 11
    /\ Len(SeedModes) = 2 /\ Len(Offsets) = 5
    /\ Len(SpacingOptions) = 3
    /\ RingLimit - 1 = 15
    /\ ShrinkTries = 15
    /\ Len(returned) + (IF pc = "place" THEN 1 ELSE 0) <= 1 + Retries
    /\ attempt <= Retries
    /\ pc = "place" => idx <= Len(cables_sorted) + 1
    /\ tries <= ShrinkTries
    /\ WhileAddsOrExits

C17_Witness ==
    /\ pc = "done"
    /\ Len(returned) = 1 + Retries
    /\ \E k \in 1..Len(returned) : returned[k].unplaced > 0 /\ returned[k].placed # << >>

C17_WitnessNested ==
    /\ spc = "return"
    /\ tries = ShrinkTries
    /\ iters > 2

C18_WitnessWarned == pc = "warned"

\* C19: with the same cables, radius, seed mode and offset, the call with 48
\* angles leaves no more cables unplaced than the call with 36 angles, and
\* with as many unplaced its layout has no larger extent (up to 0.05 mm).
C19_MoreAnglesNeverWorse ==
    Len(returned) = 2 =>
        /\ returned[2].unplaced <= returned[1].unplaced
        /\ returned[2].unplaced = returned[1].unplaced
              => returned[2].extent <= returned[1].extent + 5

\* both calls have returned and have placed every cable
C19_BothPlacedAll ==
    /\ Len(returned) = 2
    /\ returned[1].unplaced = 0
    /\ returned[2].unplaced = 0

\* C20: when the iterations of two calls of the search are interleaved over
\* the same cable dicts, each call places the same cables at the same
\* centres and counts as many unplaced as when it runs alone.
C20_InterleavedAsAlone ==
    \A p \in DOMAIN att :
        att[p].idx > Len(att[p].sorted) =>
            /\ att[p].placed = att[p].solo_placed
            /\ att[p].chosen = att[p].solo_chosen
            /\ att[p].unplaced = att[p].solo_unplaced

\* the part of C20 about the unplaced count alone
C20_InterleavedSameUnplaced ==
    \A p \in DOMAIN att :
        att[p].idx > Len(att[p].sorted) => att[p].unplaced = att[p].solo_unplaced

\* the position of cable c in the processing order
PositionOf(c) == CHOOSE k \in 1..Len(cables_sorted) : cables_sorted[k] = c

\* C22: a call of _place_cables processes the cables by descending radius,
\* cables of equal radius in their input order, and its list placed is in
\* that processing order.
C22_ProcessedByDescendingRadius ==
    pc = "place" =>
        /\ { cables_sorted[k] : k \in 1..Len(cables_sorted) } = 1..Len(cable_instances)
        /\ Len(cables_sorted) = Len(cable_instances)
        /\ \A i, j \in 1..Len(cables_sorted) :
              i < j =>
                  \/ cable_instances[cables_sorted[i]].r > cable_instances[cables_sorted[j]].r
                  \/ /\ cable_instances[cables_sorted[i]].r = cable_instances[cables_sorted[j]].r
                     /\ cables_sorted[i] < cables_sorted[j]
        /\ \A i, j \in 1..Len(placed) :
              i < j => PositionOf(placed[i]) < PositionOf(placed[j])
        /\ \A i \in 1..Len(placed) : PositionOf(placed[i]) < idx

C22_Witness ==
    /\ AtReturn
    /\ Len(placed) >= 3
    /\ cable_instances[1].r < cable_instances[Len(cable_instances)].r
    /\ \E i, j \in 1..Len(placed) :
          i < j /\ cable_instances[placed[i]].r = cable_instances[placed[j]].r

\* the call has just placed a cable on a tangency candidate
JustPlacedOnCandidate == pc = "place" /\ last.via = "tangent" /\ Len(placed) >= 2

\* the cables that were placed before the last one
PlacedBefore == SubSeq(placed, 1, Len(placed) - 1)

\* the key of the point (x, y) for the cable placed last
KeyOfLast(x, y) ==
    Score(x, y, cable_instances[placed[Len(placed)]].r,
          CurrentMax(cable_instances, PlacedBefore, 1))

\* the point pt is a candidate that passes fits for the cable placed last
FitsForLast(pt) ==
    fits(cable_instances, PlacedBefore, conduit_radius, pt[1], pt[2],
         cable_instances[placed[Len(placed)]].r, last.spacing)

\* the candidates of the pass in which the last cable was placed
CandidatesOfLast ==
    Candidates(cable_instances, PlacedBefore, conduit_radius,
               cable_instances[placed[Len(placed)]].r, last.spacing,
               CallArgs(attempt).angle_offset, CallArgs(attempt).angle_count)

\* the centre written for the cable placed last
CentreOfLast ==
    << cable_instances[placed[Len(placed)]].x, cable_instances[placed[Len(placed)]].y >>

\* C23: the position given to a cable is one of the candidates that pass
\* fits at the spacing of the pass, and no candidate that passes has a
\* strictly smaller key (maximum extent with the candidate, extent of the
\* candidate, squared distance from the origin).
C23_ChosenMinimisesKey ==
    JustPlacedOnCandidate =>
        \A pts \in {CandidatesOfLast}, key \in {KeyOfLast(CentreOfLast[1], CentreOfLast[2])} :
            /\ \E k \in 1..Len(pts) : pts[k] = CentreOfLast
            /\ FitsForLast(CentreOfLast)
            /\ \A k \in 1..Len(pts) :
                  FitsForLast(pts[k]) => ~ScoreLess(KeyOfLast(pts[k][1], pts[k][2]), key)

C23_Witness ==
    /\ JustPlacedOnCandidate
    /\ Len(placed) >= 3
    /\ \E pts \in {CandidatesOfLast}, key \in {KeyOfLast(CentreOfLast[1], CentreOfLast[2])} :
          \E k, m \in 1..Len(pts) :
              /\ FitsForLast(pts[k]) /\ FitsForLast(pts[m])
              /\ KeyOfLast(pts[k][1], pts[k][2])[1] > key[1]
              /\ KeyOfLast(pts[m][1], pts[m][2])[1] = key[1]
              /\ ScoreLess(key, KeyOfLast(pts[m][1], pts[m][2]))

\* the last iteration gave its cable a point of the ring fallback
PlacedOnRing == pc = "place" /\ last.via = "ring" /\ Len(placed) >= 2

\* the best candidate of the tangency search for the cable placed last, had
\* the pass been run with this spacing; None when no candidate passes fits
SurvivorAt(spacing) ==
    Rank(Candidates(cable_instances, PlacedBefore, conduit_radius,
                    cable_instances[placed[Len(placed)]].r, spacing,
                    CallArgs(attempt).angle_offset, CallArgs(attempt).angle_count),
         cable_instances, PlacedBefore, conduit_radius,
         cable_instances[placed[Len(placed)]].r, spacing,
         CurrentMax(cable_instances, PlacedBefore, 1))

\* C21: a cable is given a point of the ring fallback only when the
\* tangency search has no surviving candidate at any spacing of the
\* sequence 0.5, 0.2, 0.0 - never while a candidate at a smaller spacing,
\* not yet tried, would pass fits.
C21_RingOnlyAfterAllSpacings ==
    PlacedOnRing =>
        \A si \in 1..Len(SpacingOptions) : SurvivorAt(SpacingOptions[si]) = None

\* the radius of the cable placed last
RadiusOfLast == cable_instances[placed[Len(placed)]].r

\* the point pt passes fits for the cable placed last at this spacing
FitsLastAt(pt, spacing) ==
    fits(cable_instances, PlacedBefore, conduit_radius, pt[1], pt[2], RadiusOfLast, spacing)

\* the ring number k is visited for the cable placed last: the loop has not
\* reached range(1, 16)'s end nor the break "ring_r + r > conduit_radius"
RingVisited(k) ==
    k < RingLimit /\ RingRadius(k, RadiusOfLast) + RadiusOfLast <= conduit_radius

\* the points sampled on the ring of radius ring_r, in angle order
RingOfLast(ring_r) ==
    RingPoints(ring_r, CallArgs(attempt).angle_offset, CallArgs(attempt).angle_count)

\* some point sampled on the ring of radius ring_r passes fits at this spacing
RingHasPoint(ring_r, spacing) ==
    \E pts \in {RingOfLast(ring_r)} : \E m \in 1..Len(pts) : FitsLastAt(pts[m], spacing)

\* the last iteration gave its cable a point, of the candidates or of a ring
PlacedBySearch ==
    pc = "place" /\ last.via \in {"tangent", "ring"} /\ Len(placed) >= 2

\* C24 (as the code has it): the rings of a pass are visited only when the
\* candidates of the pass have no survivor, in order of increasing radius
\* ring * 1.1 * r, ring = 1, 2, ... up to 15, stopping at the first ring with
\* ring_r + r > R.  The point returned lies on the innermost visited ring
\* that has a sampled point passing fits, passes fits itself, and no point of
\* that ring that passes has a smaller key.  A pass whose rings are visited
\* and that yields no point has no visited ring with a point that passes.
C24_RingSweep ==
    /\ PlacedOnRing =>
          /\ SurvivorAt(last.spacing) = None
          /\ \E k \in 1..(RingLimit - 1) :
                /\ RingVisited(k)
                /\ \A j \in 1..(k - 1) :
                      ~RingHasPoint(RingRadius(j, RadiusOfLast), last.spacing)
                /\ \E pts \in {RingOfLast(RingRadius(k, RadiusOfLast))} :
                      /\ \E m \in 1..Len(pts) : pts[m] = CentreOfLast
                      /\ FitsLastAt(CentreOfLast, last.spacing)
                      /\ \A m \in 1..Len(pts) :
                            FitsLastAt(pts[m], last.spacing) =>
                                ~ScoreLess(KeyOfLast(pts[m][1], pts[m][2]),
                                           KeyOfLast(CentreOfLast[1], CentreOfLast[2]))
    /\ PlacedBySearch =>
          \A si \in 1..Len(SpacingOptions) :
              SpacingOptions[si] > last.spacing =>
                  \A k \in 1..(RingLimit - 1) :
                      RingVisited(k) =>
                          ~RingHasPoint(RingRadius(k, RadiusOfLast), SpacingOptions[si])

\* a cable was given a point of the third ring or of one farther out, on a
\* ring with several points that pass
C24_Witness ==
    /\ PlacedOnRing
    /\ ~RingHasPoint(RingRadius(1, RadiusOfLast), last.spacing)
    /\ ~RingHasPoint(RingRadius(2, RadiusOfLast), last.spacing)
    /\ \E k \in 3..(RingLimit - 1) :
          /\ RingVisited(k)
          /\ \E pts \in {RingOfLast(RingRadius(k, RadiusOfLast))} :
                /\ \E m \in 1..Len(pts) : pts[m] = CentreOfLast
                /\ \E m \in 1..Len(pts) :
                      pts[m] # CentreOfLast /\ FitsLastAt(pts[m], last.spacing)

\* the radius of the k-th ring when successive rings are 1.1 * 2r apart
RingRadiusByDiameter(k) == k * Round(RadiusOfLast * 22, 10)

\* C24 (as stated): the point of the ring fallback is the first point, in
\* angle order, that passes containment and separation on the innermost ring
\* that has one, the rings being 1.1 * 2r apart and visited while
\* ring radius + r does not exceed R.
C24_RingAsStated ==
    PlacedOnRing =>
        \E k \in 1..RingLimit :
            /\ RingRadiusByDiameter(k) + RadiusOfLast <= conduit_radius
            /\ \A j \in 1..(k - 1) : ~RingHasPoint(RingRadiusByDiameter(j), last.spacing)
            /\ \E pts \in {RingOfLast(RingRadiusByDiameter(k))} :
                  \E m \in 1..Len(pts) :
                      /\ pts[m] = CentreOfLast
                      /\ FitsLastAt(pts[m], last.spacing)
                      /\ \A n \in 1..(m - 1) : ~FitsLastAt(pts[n], last.spacing)

\* the overlap placer has run and has given at least one cable a position
OverlapPositioned == pc = "done" /\ mode = "overlap-allowed" /\ Len(final_placed) >= 1

\* C25: in overlap-allowed mode the first cable that receives a position -
\* the first cable in input order that is not dropped - is at the origin.
C25_FirstPositionedAtOrigin ==
    OverlapPositioned =>
        /\ cable_instances[final_placed[1]].x = 0
        /\ cable_instances[final_placed[1]].y = 0

\* the distance from the origin of the k-th cable of the final list
RadialDistance(k) ==
    Hypot(cable_instances[final_placed[k]].x, cable_instances[final_placed[k]].y)

\* C26: in overlap-allowed mode every positioned cable is at least as far
\* from the origin as the cable positioned before it, whatever the radii
\* (up to the rounding of the coordinates, two hundredths of a millimetre).
C26_RadialDistanceNonDecreasing ==
    OverlapPositioned =>
        \A k \in 1..(Len(final_placed) - 1) : RadialDistance(k) <= RadialDistance(k + 1) + 2

\* conductors of a given radius larger than the space inside the cable are
\* to be drawn, and the shrink loop has been entered
OversizedConductors ==
    /\ spc \notin {"off", "cable"}
    /\ n_cond # 0
    /\ R_inner > 0
    /\ r_cond > R_inner

\* C27 (as stated): conductors whose given radius is strictly greater than
\* the radius inside the cable (r - 0.6) are dropped: none of them is drawn.
C27_OversizedDropped ==
    (OversizedConductors /\ spc = "drawn") => conductors = << >>

\* C27 (as the code has it): a given radius greater than the radius inside
\* the cable is replaced by that radius, R_inner: the first packing attempt
\* is made with R_inner, every attempt with a radius that is at most
\* R_inner, and at least one conductor is drawn.
C27_OversizedClamped ==
    OversizedConductors =>
        /\ r_cond_use <= R_inner
        /\ tries = 0 => r_cond_use = R_inner
        /\ tries = 1 => pack_r = R_inner
        /\ tries >= 1 => pack_r > 0 /\ pack_r <= R_inner
        /\ spc = "drawn" =>
              /\ Len(conductors) >= 1
              /\ \A k \in 1..Len(conductors) :
                    Hypot(conductors[k][1], conductors[k][2]) + pack_r <= R_inner

C27_Witness ==
    /\ OversizedConductors
    /\ spc = "drawn"
    /\ Len(conductors) >= 2
    /\ Len(conductors) = n_cond

\* the shrink loop has made an attempt and the packer has returned from it
AttemptOver == tries >= 1 /\ spc \in {"for", "draw", "drawn"}

\* C28: the shrink loop makes at most 15 packing attempts; the radius is
\* multiplied by 0.9 only after an attempt that placed fewer conductors than
\* requested; after the first attempt that places all of them no further
\* attempt is made.
C28_ShrinkLoop ==
    /\ tries <= ShrinkTries
    /\ (tries >= 1 /\ spc \in {"while", "return"}) => r_cond_use = pack_r
    /\ AttemptOver =>
          /\ r_cond_use \in {pack_r, Shrunk(pack_r)}
          /\ Len(conductor_positions) >= n_cond => r_cond_use = pack_r /\ spc # "for"
          /\ Len(conductor_positions) < n_cond => r_cond_use = Shrunk(pack_r)
          /\ spc = "for" => Len(conductor_positions) < n_cond /\ tries < ShrinkTries
          /\ (spc # "for" /\ Len(conductor_positions) < n_cond) => tries = ShrinkTries

\* all the conductors were placed by an attempt that followed failed ones
C28_Witness ==
    /\ spc = "drawn"
    /\ tries >= 3
    /\ tries < ShrinkTries
    /\ n_cond >= 2
    /\ Len(conductors) = n_cond
    /\ r_cond_use < FirstCondRadius(r_cond, R_inner, n_cond)

\* C29: the radius the conductors are drawn with, r_cond_use, is the radius
\* that was passed to the packing attempt that produced the positions drawn,
\* when an attempt placed them all and when the 15 attempts are used up.
C29_DrawnRadiusIsPackedRadius ==
    (spc = "drawn" /\ tries >= 1) => r_cond_use = pack_r

\* the search of the page is over: the layout it returns is in final_placed
SearchOver == pc \in {"overpack", "done"} /\ Len(returned) >= 1

\* C30: the retries are run only if the default call (centre seed, offset 0,
\* 36 angles) left a cable unplaced; when the default call placed every
\* cable, no other call is made, and the layout returned is the list and
\* the centres of the default call, with unplaced = 0.
C30_RetriesOnlyAfterUnplaced ==
    /\ (attempt >= 1 \/ Len(returned) >= 2) =>
          /\ Len(returned) >= 1
          /\ returned[1].unplaced > 0
    /\ (SearchOver /\ returned[1].unplaced = 0) =>
          /\ Len(returned) = 1
          /\ attempt = 0
          /\ final_unplaced = 0
          /\ final_placed = returned[1].placed
          /\ Centres(cable_instances, final_placed) = returned[1].centres
          /\ mode = "non-overlapping"

\* the default call placed all of four or more cables and the page is done
C30_Witness ==
    /\ pc = "done"
    /\ Len(returned) = 1
    /\ returned[1].unplaced = 0
    /\ Len(final_placed) >= 4
    /\ Len(final_placed) = Len(cable_instances)

====
